---- MODULE Spec2Model ----
(***************************************************************************)
(* Model of the WMON transfer indexer: the balance ledger                  *)
(* (trackers/balanceTracker), the transaction grouper                      *)
(* (trackers/transactionGrouper), the transfer listener                    *)
(* (listeners/transferListener) and the connection supervisor of index.ts. *)
(***************************************************************************)
EXTENDS Integers, Sequences, FiniteSets, TLC

VARIABLES
  balances,              \* balanceTracker: Map address -> bigint, in insertion order
  totalTransfers,        \* balanceTracker: number of updateBalance calls
  ledgerCalls,           \* history: the updateBalance calls made, in order
  pendingTransfers,      \* transactionGrouper: Map txHash -> TransferEvent[], in insertion order
  currentBlock,          \* transactionGrouper: block being accumulated, or NULL_BLOCK
  onTransactionReady,    \* transactionGrouper: TRUE once a callback is registered
  totalMultiTransferTxs, \* transactionGrouper: stats
  maxTransfersInOneTx,   \* transactionGrouper: stats
  delivered,             \* history: the events passed to addTransfer, in arrival order
  emitted,               \* history: the GroupedTransactions passed to the callback, in order
  writes,                \* the insertGroupedTransaction calls awaiting the database's answer
  table,                 \* the rows of the transfers table
  dbInsertCount,         \* index.ts
  dbInsertErrors,        \* index.ts
  processingErrors,      \* transferListener: number of 'Error processing transfer' reports
  currentProvider,       \* index.ts: the provider handle, or NULL_PROVIDER
  providers,             \* every WebSocketProvider created so far, by creation order
  reconnectAttempts,     \* index.ts
  disconnectCount,       \* index.ts
  lastStableConnection,  \* index.ts: "never" (0), "recent" (< 30 s ago) or "old"
  isReconnecting,        \* index.ts
  dbConnected,           \* index.ts
  mainLoop,              \* main's await connectWithRetry(): [pc, provider]
  hdLoop,                \* the running handleDisconnect: [pc, provider]
  stabilityTimers,       \* pending stability timers, oldest first, by the provider they were set for
  healthCheck,           \* TRUE while the health check's getBlockNumber() is in flight
  shutdown,              \* the SIGTERM handler: [pc, provider]
  exitCode,              \* "running", or the code given to process.exit
  episodes,              \* history: number of handleDisconnect calls that passed the guard
  abandoned,             \* dropped providers destroy() was never called on (counted up to MaxAbandoned)
  staleHandlers,         \* TRUE when a dropped provider still has the error/close handlers
  lastSleep              \* the last sleep(ms) whose delay was computed: [by, n, jitter, flag, ms]

ledgerVars == <<balances, totalTransfers, ledgerCalls>>

grouperVars == <<pendingTransfers, currentBlock, onTransactionReady,
                 totalMultiTransferTxs, maxTransfersInOneTx, delivered, emitted>>

persistVars == <<writes, table, dbInsertCount, dbInsertErrors>>

listenerVars == <<processingErrors>>

dataVars == <<ledgerVars, grouperVars, persistVars, listenerVars>>

supVars == <<currentProvider, providers, reconnectAttempts, disconnectCount,
             lastStableConnection, isReconnecting, dbConnected, mainLoop, hdLoop,
             stabilityTimers, healthCheck, shutdown, exitCode, episodes,
             abandoned, staleHandlers>>

timingVars == <<lastSleep>>

vars == <<dataVars, supVars, timingVars>>

(***************************************************************************)
(* Bounds and input domains                                                *)
(***************************************************************************)
MaxApplies == 3
MaxTopN == 4
MaxDeliveries == 4
MaxDisconnects == 1
MaxFailures == 2
MaxSystemDeliveries == 2
MaxAbandoned == 2
MaxDisconnectCount == 6
MaxListenerDeliveries == 4
MaxPatternLen == 3
MaxLateSignals == 1

Min(a, b) == IF a < b THEN a ELSE b

ZERO_ADDRESS == "0x0"
Holders == {"A", "B", "C"}
Addresses == Holders \cup {ZERO_ADDRESS}
Values == {1, 2}

(***************************************************************************)
(* A JavaScript Map, kept as the sequence of its entries in insertion      *)
(* order: set() of a present key keeps its position, set() of a new key    *)
(* appends.                                                                *)
(***************************************************************************)
MapKeys(m) == {m[i].key : i \in 1..Len(m)}

MapHas(m, k) == \E i \in 1..Len(m) : m[i].key = k

MapIndex(m, k) == CHOOSE i \in 1..Len(m) : m[i].key = k

MapSet(m, k, v) ==
  IF MapHas(m, k)
    THEN [m EXCEPT ![MapIndex(m, k)] = [key |-> k, val |-> v]]
    ELSE Append(m, [key |-> k, val |-> v])

\* balances.get(a) ?? 0n
BalanceOf(m, a) == IF MapHas(m, a) THEN m[MapIndex(m, a)].val ELSE 0

(***************************************************************************)
(* balanceTracker.updateBalance                                            *)
(***************************************************************************)
\* mutant: the sender is debited even when it is the zero address
DebitSender_NoZeroCheck(m, from, value) ==
  MapSet(m, from, BalanceOf(m, from) - value)

DebitSender(m, from, value) ==
  IF from # ZERO_ADDRESS THEN MapSet(m, from, BalanceOf(m, from) - value) ELSE m

\* mutant: the receiver's delta is overwritten instead of increased
CreditReceiver_Overwrite(m, to, value) ==
  IF to # ZERO_ADDRESS THEN MapSet(m, to, value) ELSE m

CreditReceiver(m, to, value) ==
  IF to # ZERO_ADDRESS THEN MapSet(m, to, BalanceOf(m, to) + value) ELSE m

\* mutant: both balances are read before either is written
updateBalance_ReadBoth(m, from, to, value) ==
  LET fromBalance == BalanceOf(m, from)
      toBalance == BalanceOf(m, to)
      m1 == IF from # ZERO_ADDRESS THEN MapSet(m, from, fromBalance - value) ELSE m
  IN IF to # ZERO_ADDRESS THEN MapSet(m1, to, toBalance + value) ELSE m1

updateBalance(m, from, to, value) ==
  CreditReceiver(DebitSender(m, from, value), to, value)

(***************************************************************************)
(* balanceTracker.getTopHolders: Array.prototype.sort is stable, so the    *)
(* sort is an insertion sort that keeps equal balances in Map order;       *)
(* slice(0, n) follows Array.prototype.slice (a negative end counts from   *)
(* the end of the array).                                                  *)
(***************************************************************************)
\* mutant: a holder is placed before the holders of equal balance
RECURSIVE InsertDesc_BeforeEqual(_, _)
InsertDesc_BeforeEqual(sorted, h) ==
  IF sorted = <<>> THEN <<h>>
  ELSE IF h.val >= Head(sorted).val THEN <<h>> \o sorted
  ELSE <<Head(sorted)>> \o InsertDesc_BeforeEqual(Tail(sorted), h)

RECURSIVE InsertDesc(_, _)
InsertDesc(sorted, h) ==
  IF sorted = <<>> THEN <<h>>
  ELSE IF h.val > Head(sorted).val THEN <<h>> \o sorted
  ELSE <<Head(sorted)>> \o InsertDesc(Tail(sorted), h)

RECURSIVE SortDesc(_)
SortDesc(m) ==
  IF m = <<>> THEN <<>>
  ELSE InsertDesc(SortDesc(SubSeq(m, 1, Len(m) - 1)), m[Len(m)])

SliceEnd(len, n) ==
  IF n < 0 THEN (IF len + n < 0 THEN 0 ELSE len + n)
  ELSE (IF n > len THEN len ELSE n)

\* mutant: the holders are sliced without being sorted
getTopHolders_Unsorted(m, n) == SubSeq(m, 1, SliceEnd(Len(m), n))

getTopHolders(m, n) == SubSeq(SortDesc(m), 1, SliceEnd(Len(m), n))

\* mutant: only the accounts with a non-zero delta are counted
getStats_NonZeroDeltas ==
  [totalHolders |-> Cardinality({i \in 1..Len(balances) : balances[i].val # 0}),
   totalTransfers |-> totalTransfers]

\* balanceTracker.getStats
getStats == [totalHolders |-> Len(balances), totalTransfers |-> totalTransfers]

(***************************************************************************)
(* The logs of the chain the subscription can deliver. A log's             *)
(* (transactionHash, logIndex) fixes its block and its payload; a          *)
(* delivered log is decoded into a TransferEvent stamped with the time of  *)
(* its arrival (decodeTransferLog: Math.floor(Date.now() / 1000)).         *)
(***************************************************************************)
Log(tx, idx, blk, from, to, value) ==
  [transactionHash |-> tx, logIndex |-> idx, blockNumber |-> blk,
   from |-> from, to |-> to, value |-> value]

ChainLogs ==
  { Log("T1", 0, 100, "B", "C", 3),
    Log("T1", 1, 100, "C", "A", 3),
    Log("T1", 2, 100, "A", "B", 5),
    Log("T2", 0, 100, ZERO_ADDRESS, "A", 4),
    Log("T3", 0, 101, "A", ZERO_ADDRESS, 1) }

\* what stands for a topic the log does not have and for data that is not a
\* number: log.topics[i].slice, ethers.getAddress and BigInt(log.data) throw
MISSING_TOPIC == ""
BAD_DATA == -1

MalformedLogs ==
  { Log("T1", 1, 100, MISSING_TOPIC, "A", 3),
    Log("T3", 0, 101, "A", "B", BAD_DATA) }

decodeThrows(log) ==
  log.from = MISSING_TOPIC \/ log.to = MISSING_TOPIC \/ log.value = BAD_DATA

decodeTransferLog(log, now) ==
  [transactionHash |-> log.transactionHash, logIndex |-> log.logIndex,
   blockNumber |-> log.blockNumber, from |-> log.from, to |-> log.to,
   value |-> log.value, timestamp |-> now]

(***************************************************************************)
(* The derived state (ledger and grouper) as one record, so that the       *)
(* operations on it compose.                                               *)
(***************************************************************************)
DataState ==
  [balances |-> balances, totalTransfers |-> totalTransfers,
   ledgerCalls |-> ledgerCalls, pendingTransfers |-> pendingTransfers,
   currentBlock |-> currentBlock, onTransactionReady |-> onTransactionReady,
   totalMultiTransferTxs |-> totalMultiTransferTxs,
   maxTransfersInOneTx |-> maxTransfersInOneTx,
   delivered |-> delivered, emitted |-> emitted,
   writes |-> writes, table |-> table, dbInsertCount |-> dbInsertCount,
   dbInsertErrors |-> dbInsertErrors, processingErrors |-> processingErrors]

SetData(d) ==
  /\ balances' = d.balances
  /\ totalTransfers' = d.totalTransfers
  /\ ledgerCalls' = d.ledgerCalls
  /\ pendingTransfers' = d.pendingTransfers
  /\ currentBlock' = d.currentBlock
  /\ onTransactionReady' = d.onTransactionReady
  /\ totalMultiTransferTxs' = d.totalMultiTransferTxs
  /\ maxTransfersInOneTx' = d.maxTransfersInOneTx
  /\ delivered' = d.delivered
  /\ emitted' = d.emitted
  /\ writes' = d.writes
  /\ table' = d.table
  /\ dbInsertCount' = d.dbInsertCount
  /\ dbInsertErrors' = d.dbInsertErrors
  /\ processingErrors' = d.processingErrors

InitData(d) ==
  /\ balances = d.balances
  /\ totalTransfers = d.totalTransfers
  /\ ledgerCalls = d.ledgerCalls
  /\ pendingTransfers = d.pendingTransfers
  /\ currentBlock = d.currentBlock
  /\ onTransactionReady = d.onTransactionReady
  /\ totalMultiTransferTxs = d.totalMultiTransferTxs
  /\ maxTransfersInOneTx = d.maxTransfersInOneTx
  /\ delivered = d.delivered
  /\ emitted = d.emitted
  /\ writes = d.writes
  /\ table = d.table
  /\ dbInsertCount = d.dbInsertCount
  /\ dbInsertErrors = d.dbInsertErrors
  /\ processingErrors = d.processingErrors

NULL_BLOCK == -1

DataState0 ==
  [balances |-> <<>>, totalTransfers |-> 0, ledgerCalls |-> <<>>,
   pendingTransfers |-> <<>>, currentBlock |-> NULL_BLOCK,
   onTransactionReady |-> FALSE, totalMultiTransferTxs |-> 0,
   maxTransfersInOneTx |-> 0, delivered |-> <<>>, emitted |-> <<>>,
   writes |-> <<>>, table |-> {}, dbInsertCount |-> 0, dbInsertErrors |-> 0,
   processingErrors |-> 0]

\* one call of balanceTracker.updateBalance; event names the log it was made
\* for (<<>> for a call that comes from no log)
UpdateBalanceCall(d, from, to, value, event) ==
  [d EXCEPT !.totalTransfers = @ + 1,
            !.balances = updateBalance(@, from, to, value),
            !.ledgerCalls = Append(@, [from |-> from, to |-> to, value |-> value,
                                       event |-> event, pre |-> d.balances])]

(***************************************************************************)
(* transactionGrouper.flushPendingTransactions                             *)
(***************************************************************************)
\* transfers.sort((a, b) => a.logIndex - b.logIndex), a stable sort
RECURSIVE InsertByLogIndex(_, _)
InsertByLogIndex(sorted, t) ==
  IF sorted = <<>> THEN <<t>>
  ELSE IF t.logIndex < Head(sorted).logIndex THEN <<t>> \o sorted
  ELSE <<Head(sorted)>> \o InsertByLogIndex(Tail(sorted), t)

RECURSIVE SortByLogIndex(_)
SortByLogIndex(ts) ==
  IF ts = <<>> THEN <<>>
  ELSE InsertByLogIndex(SortByLogIndex(SubSeq(ts, 1, Len(ts) - 1)), ts[Len(ts)])

\* mutant: the transfers are emitted in arrival order
sortTransfers_ArrivalOrder(ts) == ts

sortTransfers(ts) == SortByLogIndex(ts)

\* mutant: the group is stamped from its last transfer
GroupedTransaction_LastTransfer(txHash, transfers) ==
  [transactionHash |-> txHash,
   blockNumber |-> transfers[Len(transfers)].blockNumber,
   timestamp |-> transfers[Len(transfers)].timestamp,
   transfers |-> transfers]

GroupedTransaction(txHash, transfers) ==
  [transactionHash |-> txHash,
   blockNumber |-> transfers[1].blockNumber,
   timestamp |-> transfers[1].timestamp,
   transfers |-> transfers]

\* mutant: one group for every buffered transfer
FlushGroups_PerTransfer(pending) ==
  IF pending = <<>> THEN <<>>
  ELSE LET first == pending[1] IN
         [i \in 1..Len(first.val) |-> GroupedTransaction(first.key, <<first.val[i]>>)]
           \o [i \in 1..(Len(pending) - 1) |->
                 GroupedTransaction(pending[i + 1].key, sortTransfers(pending[i + 1].val))]

\* the groups one flush of the buffer builds, in Map iteration order
FlushGroups(pending) ==
  [i \in 1..Len(pending) |->
     GroupedTransaction(pending[i].key, sortTransfers(pending[i].val))]

RECURSIVE CountMulti(_)
CountMulti(groups) ==
  IF groups = <<>> THEN 0
  ELSE (IF Len(Head(groups).transfers) > 1 THEN 1 ELSE 0) + CountMulti(Tail(groups))

RECURSIVE MaxMulti(_, _)
MaxMulti(max, groups) ==
  IF groups = <<>> THEN max
  ELSE LET n == Len(Head(groups).transfers)
       IN MaxMulti(IF n > 1 /\ n > max THEN n ELSE max, Tail(groups))

\* mutant: the buffer is not cleared after the groups were emitted
flushPendingTransactions_NoClear(d) ==
  LET groups == FlushGroups(d.pendingTransfers) IN
    [d EXCEPT !.emitted = IF d.onTransactionReady THEN @ \o groups ELSE @,
              !.writes = IF d.onTransactionReady /\ dbConnected THEN @ \o groups ELSE @,
              !.totalMultiTransferTxs = @ + CountMulti(groups),
              !.maxTransfersInOneTx = MaxMulti(@, groups)]

\* The callback main registers runs up to its await of
\* insertGroupedTransaction, which runs up to its await of the upsert: each
\* emitted group leaves one write in flight when the database is connected.
flushPendingTransactions(d) ==
  LET groups == FlushGroups(d.pendingTransfers) IN
    [d EXCEPT !.emitted = IF d.onTransactionReady THEN @ \o groups ELSE @,
              !.writes = IF d.onTransactionReady /\ dbConnected THEN @ \o groups ELSE @,
              !.totalMultiTransferTxs = @ + CountMulti(groups),
              !.maxTransfersInOneTx = MaxMulti(@, groups),
              !.pendingTransfers = <<>>]

\* transactionGrouper.getGrouperStats
getGrouperStats(d) ==
  [pendingTxCount |-> Len(d.pendingTransfers),
   totalMultiTransferTxs |-> d.totalMultiTransferTxs,
   maxTransfersInOneTx |-> d.maxTransfersInOneTx]

(***************************************************************************)
(* transactionGrouper.addTransfer                                          *)
(***************************************************************************)
PendingOf(pending, txHash) ==
  IF MapHas(pending, txHash) THEN pending[MapIndex(pending, txHash)].val ELSE <<>>

\* mutant: an event of the block being accumulated flushes too
NewBlock_NotOlder(d, transfer) ==
  d.currentBlock # NULL_BLOCK /\ transfer.blockNumber >= d.currentBlock

NewBlock(d, transfer) ==
  d.currentBlock # NULL_BLOCK /\ transfer.blockNumber > d.currentBlock

\* mutant: the transfer replaces what is buffered for its transaction
addTransfer_Replaces(d, transfer) ==
  LET d1 == IF NewBlock(d, transfer) THEN flushPendingTransactions(d) ELSE d IN
    [d1 EXCEPT !.currentBlock = transfer.blockNumber,
               !.pendingTransfers = MapSet(@, transfer.transactionHash, <<transfer>>),
               !.delivered = Append(@, transfer)]

addTransfer(d, transfer) ==
  LET d1 == IF NewBlock(d, transfer) THEN flushPendingTransactions(d) ELSE d IN
    [d1 EXCEPT !.currentBlock = transfer.blockNumber,
               !.pendingTransfers =
                  MapSet(@, transfer.transactionHash,
                         Append(PendingOf(@, transfer.transactionHash), transfer)),
               !.delivered = Append(@, transfer)]

(***************************************************************************)
(* transferListener.startTransferListener: the handler of one delivered    *)
(* log. The decoded event is stamped with the time of its arrival, one     *)
(* tick per arrival.                                                       *)
(***************************************************************************)
Now(d) == Len(d.delivered) + 1

LogKey(log) == <<log.transactionHash, log.logIndex>>

\* mutant: the ledger is updated from the raw log before it is decoded
onLog_LedgerFirst(d, log) ==
  LET d1 == UpdateBalanceCall(d, log.from, log.to, log.value, LogKey(log)) IN
    IF decodeThrows(log)
      THEN [d1 EXCEPT !.processingErrors = @ + 1]
      ELSE addTransfer(d1, decodeTransferLog(log, Now(d)))

\* mutant: the event is buffered and the ledger is left alone
onLog_BufferOnly(d, log) ==
  IF decodeThrows(log)
    THEN [d EXCEPT !.processingErrors = @ + 1]
    ELSE addTransfer(d, decodeTransferLog(log, Now(d)))

\* the try block is left at the throw of decodeTransferLog, before anything
\* was updated; the catch block reports the error
onLog(d, log) ==
  IF decodeThrows(log)
    THEN [d EXCEPT !.processingErrors = @ + 1]
    ELSE LET decoded == decodeTransferLog(log, Now(d)) IN
           addTransfer(UpdateBalanceCall(d, decoded.from, decoded.to, decoded.value,
                                         LogKey(log)),
                       decoded)

(***************************************************************************)
(* db/transferRepository.insertGroupedTransaction and the transfers table  *)
(* (supabase-schema.sql): PRIMARY KEY (tx_hash, log_index)                 *)
(***************************************************************************)
TransferRow(transfer) ==
  [tx_hash |-> transfer.transactionHash, log_index |-> transfer.logIndex,
   from_address |-> transfer.from, to_address |-> transfer.to,
   value |-> ToString(transfer.value), block_number |-> transfer.blockNumber,
   timestamp |-> transfer.timestamp]

RowsOf(groupedTx) ==
  [i \in 1..Len(groupedTx.transfers) |-> TransferRow(groupedTx.transfers[i])]

RowKey(row) == <<row.tx_hash, row.log_index>>

\* mutant: the rows are written whether or not their key is taken
upsert_NoConflictTarget(rows, stored) ==
  stored \cup {rows[i] : i \in 1..Len(rows)}

\* upsert(rows, {onConflict: 'tx_hash,log_index', ignoreDuplicates: true}):
\* INSERT ... ON CONFLICT (tx_hash, log_index) DO NOTHING, row by row
RECURSIVE upsert(_, _)
upsert(rows, stored) ==
  IF rows = <<>> THEN stored
  ELSE upsert(Tail(rows),
              IF \E r \in stored : RowKey(r) = RowKey(Head(rows))
                THEN stored
                ELSE stored \cup {Head(rows)})

RemoveAt(seq, i) == SubSeq(seq, 1, i - 1) \o SubSeq(seq, i + 1, Len(seq))

\* mutant: a failed write is counted as inserted too
insertFailed_Counted(d, i) ==
  [d EXCEPT !.writes = RemoveAt(@, i),
            !.dbInsertCount = @ + Len(d.writes[i].transfers),
            !.dbInsertErrors = @ + 1]

\* the upsert of write i answers with an error: insertGroupedTransaction
\* returns false and the callback counts the error (index.ts 334-336)
insertFailed(d, i) ==
  [d EXCEPT !.writes = RemoveAt(@, i),
            !.dbInsertErrors = @ + 1]

\* the upsert of write i answers without error: insertGroupedTransaction
\* returns true and the callback counts the transfers (index.ts 332-333)
insertSucceeded(d, i) ==
  [d EXCEPT !.writes = RemoveAt(@, i),
            !.table = upsert(RowsOf(d.writes[i]), @),
            !.dbInsertCount = @ + Len(d.writes[i].transfers)]

(***************************************************************************)
(* Ledger on its own: any sequence of updateBalance calls                  *)
(***************************************************************************)
NULL_PROVIDER == 0

\* no delay has been computed yet
NoSleep == [by |-> "none", n |-> 0, jitter |-> 0, flag |-> FALSE, ms |-> 0]

\* the supervisor before main has reached connectWithRetry
SupervisorState0 ==
  /\ currentProvider = NULL_PROVIDER
  /\ providers = <<>>
  /\ abandoned = 0
  /\ staleHandlers = FALSE
  /\ reconnectAttempts = 0
  /\ disconnectCount = 0
  /\ lastStableConnection = "never"
  /\ isReconnecting = FALSE
  /\ mainLoop = [pc |-> "start", provider |-> NULL_PROVIDER]
  /\ hdLoop = [pc |-> "idle", provider |-> NULL_PROVIDER]
  /\ stabilityTimers = <<>>
  /\ healthCheck = FALSE
  /\ shutdown = [pc |-> "idle", provider |-> NULL_PROVIDER]
  /\ exitCode = "running"
  /\ episodes = 0
  /\ lastSleep = NoSleep

LedgerInit == InitData(DataState0) /\ SupervisorState0 /\ dbConnected = FALSE

LedgerApply ==
  /\ Len(ledgerCalls) < MaxApplies
  /\ \E from \in Addresses, to \in Addresses, value \in Values :
       SetData(UpdateBalanceCall(DataState, from, to, value, <<>>))
  /\ UNCHANGED supVars
  /\ UNCHANGED timingVars

LedgerNext == LedgerApply

LedgerSpec == LedgerInit /\ [][LedgerNext]_vars

(***************************************************************************)
(* Grouper on its own: any sequence of onGroupedTransaction, addTransfer   *)
(* and flushPendingTransactions calls                                      *)
(***************************************************************************)
GrouperInit == InitData(DataState0) /\ SupervisorState0 /\ dbConnected = FALSE

onGroupedTransaction ==
  /\ ~onTransactionReady
  /\ SetData([DataState EXCEPT !.onTransactionReady = TRUE])
  /\ UNCHANGED supVars
  /\ UNCHANGED timingVars

GrouperAdd ==
  /\ Len(delivered) < MaxDeliveries
  /\ \E log \in ChainLogs :
       SetData(addTransfer(DataState, decodeTransferLog(log, Now(DataState))))
  /\ UNCHANGED supVars
  /\ UNCHANGED timingVars

GrouperFlush ==
  /\ SetData(flushPendingTransactions(DataState))
  /\ UNCHANGED supVars
  /\ UNCHANGED timingVars

GrouperNext == onGroupedTransaction \/ GrouperAdd \/ GrouperFlush

GrouperSpec == GrouperInit /\ [][GrouperNext]_vars

(***************************************************************************)
(* Grouper fed by a subscription across a chain reorganisation: the        *)
(* transaction T3, first seen in block 101, is included in block 100 of    *)
(* the chain that replaces it, and its log is delivered again from there.  *)
(***************************************************************************)
ReorgLogs == ChainLogs \cup {Log("T3", 0, 100, "A", ZERO_ADDRESS, 1)}

ReorgInit ==
  /\ InitData([DataState0 EXCEPT !.onTransactionReady = TRUE])
  /\ SupervisorState0
  /\ dbConnected = FALSE

ReorgAdd ==
  /\ Len(delivered) < MaxDeliveries
  /\ \E log \in ReorgLogs :
       SetData(addTransfer(DataState, decodeTransferLog(log, Now(DataState))))
  /\ UNCHANGED supVars
  /\ UNCHANGED timingVars

ReorgNext == ReorgAdd \/ GrouperFlush

ReorgSpec == ReorgInit /\ [][ReorgNext]_vars

(***************************************************************************)
(* The connection supervisor of index.ts. Each action is one run of the    *)
(* event loop: a handler or the continuation of an await, from where it    *)
(* starts to its next await.                                               *)
(*                                                                         *)
(* providers holds the WebSocketProviders that can still act or be acted   *)
(* on. A provider nothing refers to any more and that cannot deliver       *)
(* anything is dropped from it: it is counted in abandoned when destroy()  *)
(* was never called on it, and it sets staleHandlers when the error/close  *)
(* handlers are still registered on it (its socket can still signal).      *)
(***************************************************************************)
MAX_RECONNECT_ATTEMPTS == 20

Running == exitCode = "running"

\* the logs the subscription delivers in the whole-system specifications
SystemLogs ==
  {log \in ChainLogs : log.transactionHash \in {"T1", "T3"} /\ log.logIndex <= 1}

ProviderIds == DOMAIN providers

\* the handle of the next provider: the smallest one not in use
NewId == CHOOSE i \in 1..(Cardinality(ProviderIds) + 1) :
           i \notin ProviderIds /\ \A j \in 1..(i - 1) : j \in ProviderIds

\* new WebSocketProvider(WSS_URL)
NewProvider ==
  [socket |-> "connecting", destroyed |-> "no", listeners |-> 0, sent |-> {}]

DestroyCalled(ps, p) == [ps EXCEPT ![p].destroyed = IF @ = "no" THEN "closing" ELSE @]

DestroyFinished(ps, p) == [ps EXCEPT ![p].destroyed = "yes"]

\* a provider that delivers logs and block signals to registered handlers
Live(p) ==
  /\ providers[p].socket = "open"
  /\ providers[p].destroyed # "yes"
  /\ providers[p].listeners > 0

\* ps with the providers dropped that nothing refers to after this step and
\* that can deliver nothing
Settle(ps, timers) ==
  LET refs == {currentProvider', mainLoop'.provider, hdLoop'.provider,
               shutdown'.provider}
      dropped == {p \in DOMAIN ps :
                    /\ p \notin refs
                    /\ \/ ps[p].destroyed = "yes"
                       \/ ps[p].listeners = 0
                       \/ ps[p].socket = "failed"}
      leaked == Cardinality({p \in dropped : ps[p].destroyed = "no"})
  IN /\ providers' = [p \in DOMAIN ps \ dropped |-> ps[p]]
     /\ stabilityTimers' = [i \in 1..Len(timers) |->
                              IF timers[i] \in dropped THEN NULL_PROVIDER ELSE timers[i]]
     /\ abandoned' = IF abandoned + leaked > MaxAbandoned THEN MaxAbandoned
                     ELSE abandoned + leaked
     /\ staleHandlers' = (staleHandlers \/ \E p \in dropped : ps[p].listeners > 0)

CanAttempt == reconnectAttempts < MAX_RECONNECT_ATTEMPTS

\* connectWithRetry 393: the provider is created and becomes currentProvider
WithNewProvider == [p \in ProviderIds \cup {NewId} |->
                      IF p = NewId THEN NewProvider ELSE providers[p]]

Awaiting(p) == [pc |-> "handshake", provider |-> p]

Idle(pc) == [pc |-> pc, provider |-> NULL_PROVIDER]

\* connectWithRetry 397-438, after the handshake of p resolved: the handlers
\* are registered on whatever currentProvider is by now; on null the first
\* registration throws into the catch block (441)
ListenersRegistered == currentProvider # NULL_PROVIDER

AfterHandshake(p) ==
  IF ListenersRegistered
    THEN [providers EXCEPT ![p].socket = "open", ![currentProvider].listeners = @ + 1]
    ELSE [providers EXCEPT ![p].socket = "open"]

\* connectWithRetry 440-465: the handshake of p rejected
AfterRejection(p) == [providers EXCEPT ![p].socket = "failed"]

(***************************************************************************)
(* main: await connectWithRetry() (342)                                    *)
(***************************************************************************)
MainAttempt ==
  /\ Running
  /\ mainLoop.pc \in {"start", "backoff"}
  /\ UNCHANGED <<dataVars, reconnectAttempts, disconnectCount, lastStableConnection,
                 isReconnecting, dbConnected, hdLoop, healthCheck,
                 shutdown, episodes>>
  /\ IF CanAttempt
       THEN /\ currentProvider' = NewId
            /\ mainLoop' = Awaiting(NewId)
            /\ exitCode' = exitCode
            /\ Settle(WithNewProvider, stabilityTimers)
       ELSE /\ exitCode' = "1"
            /\ UNCHANGED <<providers, currentProvider, mainLoop, stabilityTimers, abandoned,
                         staleHandlers>>
  /\ UNCHANGED timingVars

MainHandshakeOk ==
  /\ Running
  /\ mainLoop.pc = "handshake"
  /\ UNCHANGED <<dataVars, currentProvider, disconnectCount, lastStableConnection,
                 isReconnecting, dbConnected, hdLoop, healthCheck, shutdown, exitCode,
                 episodes>>
  /\ reconnectAttempts' = IF ListenersRegistered THEN 0 ELSE 1
  /\ mainLoop' = IF ListenersRegistered THEN Idle("running") ELSE Idle("backoff")
  /\ Settle(AfterHandshake(mainLoop.provider), Append(stabilityTimers, mainLoop.provider))
  /\ UNCHANGED timingVars

MainHandshakeFails ==
  /\ Running
  /\ mainLoop.pc = "handshake"
  /\ UNCHANGED <<dataVars, currentProvider, disconnectCount, lastStableConnection,
                 isReconnecting, dbConnected, hdLoop, healthCheck,
                 shutdown, exitCode, episodes>>
  /\ reconnectAttempts' = reconnectAttempts + 1
  /\ mainLoop' = Idle("backoff")
  /\ Settle(AfterRejection(mainLoop.provider), stabilityTimers)
  /\ UNCHANGED timingVars

(***************************************************************************)
(* handleDisconnect (476-529)                                              *)
(***************************************************************************)
\* 498-516: disconnectCount once the delay is chosen
AfterDelayChoice(count) == IF lastStableConnection = "recent" THEN count ELSE 1

\* mutant: a call made while isReconnecting is true still counts a disconnect
handleDisconnect_CountsDropped ==
  IF isReconnecting
    THEN /\ disconnectCount' = disconnectCount + 1
         /\ UNCHANGED <<dataVars, isReconnecting, hdLoop, episodes>>
         /\ Settle(providers, stabilityTimers)
    ELSE /\ isReconnecting' = TRUE
         /\ episodes' = episodes + 1
         /\ SetData(flushPendingTransactions(DataState))
         /\ IF currentProvider # NULL_PROVIDER
              THEN /\ disconnectCount' = disconnectCount + 1
                   /\ hdLoop' = [pc |-> "destroying", provider |-> currentProvider]
                   /\ Settle(DestroyCalled(providers, currentProvider), stabilityTimers)
              ELSE /\ disconnectCount' = AfterDelayChoice(disconnectCount + 1)
                   /\ hdLoop' = Idle("sleeping")
                   /\ Settle(providers, stabilityTimers)

\* one call of handleDisconnect(), up to its first await; the caller leaves
\* the variables it sets to it
handleDisconnect ==
  IF isReconnecting
    THEN /\ UNCHANGED <<dataVars, isReconnecting, disconnectCount, hdLoop, episodes>>
         /\ Settle(providers, stabilityTimers)
    ELSE /\ isReconnecting' = TRUE
         /\ episodes' = episodes + 1
         /\ SetData(flushPendingTransactions(DataState))
         /\ IF currentProvider # NULL_PROVIDER
              THEN /\ disconnectCount' = disconnectCount + 1
                   /\ hdLoop' = [pc |-> "destroying", provider |-> currentProvider]
                   /\ Settle(DestroyCalled(providers, currentProvider), stabilityTimers)
              ELSE /\ disconnectCount' = AfterDelayChoice(disconnectCount + 1)
                   /\ hdLoop' = Idle("sleeping")
                   /\ Settle(providers, stabilityTimers)

\* 491-518: destroy() settled; the handle is released and the delay chosen
DestroyDone ==
  /\ Running
  /\ hdLoop.pc = "destroying"
  /\ UNCHANGED <<dataVars, reconnectAttempts, lastStableConnection, isReconnecting,
                 dbConnected, mainLoop, healthCheck, shutdown, exitCode,
                 episodes>>
  /\ currentProvider' = NULL_PROVIDER
  /\ disconnectCount' = AfterDelayChoice(disconnectCount)
  /\ hdLoop' = Idle("sleeping")
  /\ Settle(DestroyFinished(providers, hdLoop.provider), stabilityTimers)
  /\ UNCHANGED timingVars

\* 518-522 and 459/463: a sleep of the handler's reconnection ended
HandlerAttempt ==
  /\ Running
  /\ hdLoop.pc \in {"sleeping", "backoff"}
  /\ UNCHANGED <<dataVars, reconnectAttempts, disconnectCount, lastStableConnection,
                 isReconnecting, dbConnected, mainLoop, healthCheck,
                 shutdown, episodes>>
  /\ IF CanAttempt
       THEN /\ currentProvider' = NewId
            /\ hdLoop' = Awaiting(NewId)
            /\ exitCode' = exitCode
            /\ Settle(WithNewProvider, stabilityTimers)
       ELSE /\ exitCode' = "1"
            /\ UNCHANGED <<providers, currentProvider, hdLoop, stabilityTimers, abandoned,
                         staleHandlers>>
  /\ UNCHANGED timingVars

\* mutant: the finally block leaves isReconnecting as it is
HandlerReturn_NoFinally == [hdLoop |-> Idle("idle"), isReconnecting |-> isReconnecting]

\* connectWithRetry returned to handleDisconnect (522): finally (526-528)
HandlerReturn == [hdLoop |-> Idle("idle"), isReconnecting |-> FALSE]

\* the handshake of the handler's connectWithRetry resolved
HandlerHandshakeOk ==
  /\ Running
  /\ hdLoop.pc = "handshake"
  /\ UNCHANGED <<dataVars, currentProvider, disconnectCount, lastStableConnection,
                 dbConnected, mainLoop, healthCheck, shutdown, exitCode, episodes>>
  /\ reconnectAttempts' = IF ListenersRegistered THEN 0 ELSE 1
  /\ hdLoop' = IF ListenersRegistered THEN HandlerReturn.hdLoop ELSE Idle("backoff")
  /\ isReconnecting' = IF ListenersRegistered THEN HandlerReturn.isReconnecting
                       ELSE isReconnecting
  /\ Settle(AfterHandshake(hdLoop.provider), Append(stabilityTimers, hdLoop.provider))
  /\ UNCHANGED timingVars

HandlerHandshakeFails ==
  /\ Running
  /\ hdLoop.pc = "handshake"
  /\ UNCHANGED <<dataVars, currentProvider, disconnectCount, lastStableConnection,
                 isReconnecting, dbConnected, mainLoop, healthCheck,
                 shutdown, exitCode, episodes>>
  /\ reconnectAttempts' = reconnectAttempts + 1
  /\ hdLoop' = Idle("backoff")
  /\ Settle(AfterRejection(hdLoop.provider), stabilityTimers)
  /\ UNCHANGED timingVars

(***************************************************************************)
(* What triggers handleDisconnect                                          *)
(***************************************************************************)
\* a trigger that handleDisconnect will accept is taken MaxDisconnects times
\* at most; one that it will drop can arrive at any time
MayTrigger == isReconnecting \/ episodes < MaxDisconnects

\* provider 'error' (420-423) or socket 'close' (428-431) of a provider the
\* handlers were registered on
DisconnectSignal ==
  /\ Running
  /\ MayTrigger
  /\ staleHandlers \/ \E p \in ProviderIds : providers[p].listeners > 0
  /\ UNCHANGED <<currentProvider, reconnectAttempts, lastStableConnection, dbConnected,
                 mainLoop, healthCheck, shutdown, exitCode>>
  /\ handleDisconnect
  /\ UNCHANGED timingVars

\* uncaughtException / unhandledRejection with a connection error (677-713)
ProcessError ==
  /\ Running
  /\ MayTrigger
  /\ UNCHANGED <<currentProvider, reconnectAttempts, lastStableConnection, dbConnected,
                 mainLoop, healthCheck, shutdown, exitCode>>
  /\ handleDisconnect
  /\ UNCHANGED timingVars

\* the health check timer (350-358)
HealthCheckStart ==
  /\ Running
  /\ mainLoop.pc = "running"
  /\ ~healthCheck
  /\ currentProvider # NULL_PROVIDER /\ ~isReconnecting
  /\ healthCheck' = TRUE
  /\ UNCHANGED <<dataVars, currentProvider, providers, reconnectAttempts,
                 disconnectCount, lastStableConnection, isReconnecting, dbConnected,
                 mainLoop, hdLoop, stabilityTimers, shutdown, exitCode, episodes,
                 abandoned, staleHandlers>>
  /\ UNCHANGED timingVars

HealthCheckPasses ==
  /\ Running
  /\ healthCheck
  /\ healthCheck' = FALSE
  /\ UNCHANGED <<dataVars, currentProvider, reconnectAttempts, disconnectCount,
                 lastStableConnection, isReconnecting, dbConnected, mainLoop, hdLoop,
                 shutdown, exitCode, episodes>>
  /\ Settle(providers, stabilityTimers)
  /\ UNCHANGED timingVars

\* 359-362
HealthCheckFails ==
  /\ Running
  /\ MayTrigger
  /\ healthCheck
  /\ healthCheck' = FALSE
  /\ UNCHANGED <<currentProvider, reconnectAttempts, lastStableConnection, dbConnected,
                 mainLoop, shutdown, exitCode>>
  /\ handleDisconnect
  /\ UNCHANGED timingVars

(***************************************************************************)
(* Timers                                                                  *)
(***************************************************************************)
\* mutant: the stability timer flushes the buffer
StabilityTimerFires_Flushes ==
  /\ Running
  /\ UNCHANGED <<currentProvider, reconnectAttempts, isReconnecting,
                 dbConnected, mainLoop, hdLoop, healthCheck, shutdown, exitCode, episodes>>
  /\ SetData(flushPendingTransactions(DataState))
  /\ stabilityTimers # <<>>
  /\ IF currentProvider # NULL_PROVIDER
       THEN lastStableConnection' = "recent" /\ disconnectCount' = 0
       ELSE UNCHANGED <<lastStableConnection, disconnectCount>>
  /\ Settle(providers, Tail(stabilityTimers))
  /\ UNCHANGED timingVars

\* the stability timer of 403-409; the timers have one delay, so they fire in
\* the order they were set
StabilityTimerFires ==
  /\ Running
  /\ UNCHANGED <<dataVars, currentProvider, reconnectAttempts, isReconnecting,
                 dbConnected, mainLoop, hdLoop, healthCheck, shutdown, exitCode, episodes>>
  /\ stabilityTimers # <<>>
  /\ IF currentProvider # NULL_PROVIDER
       THEN lastStableConnection' = "recent" /\ disconnectCount' = 0
       ELSE UNCHANGED <<lastStableConnection, disconnectCount>>
  /\ Settle(providers, Tail(stabilityTimers))
  /\ UNCHANGED timingVars

\* STABLE_CONNECTION_THRESHOLD has passed since lastStableConnection
ThresholdPasses ==
  /\ Running
  /\ lastStableConnection = "recent"
  /\ lastStableConnection' = "old"
  /\ UNCHANGED <<dataVars, currentProvider, providers, reconnectAttempts,
                 disconnectCount, isReconnecting, dbConnected, mainLoop, hdLoop,
                 stabilityTimers, healthCheck, shutdown, exitCode, episodes,
                 abandoned, staleHandlers>>
  /\ UNCHANGED timingVars

\* the dashboard timer (345-347): printDashboard reads getStats,
\* getGrouperStats and getTopHolders(5) and prints them
DashboardTimer ==
  /\ Running
  /\ mainLoop.pc = "running"
  /\ UNCHANGED vars

(***************************************************************************)
(* What a live provider delivers                                           *)
(***************************************************************************)
RECURSIVE onLogTimes(_, _, _)
onLogTimes(d, log, n) == IF n = 0 THEN d ELSE onLogTimes(onLog(d, log), log, n - 1)

\* a log reaches every handler startTransferListener registered on p; a
\* subscription delivers a log once
DeliverLog ==
  /\ Running
  /\ \E p \in ProviderIds, log \in SystemLogs :
       /\ Live(p)
       /\ LogKey(log) \notin providers[p].sent
       /\ Len(delivered) + providers[p].listeners <= MaxSystemDeliveries
       /\ SetData(onLogTimes(DataState, log, providers[p].listeners))
       /\ providers' = [providers EXCEPT ![p].sent = @ \cup {LogKey(log)}]
  /\ UNCHANGED <<currentProvider, reconnectAttempts, disconnectCount,
                 lastStableConnection, isReconnecting, dbConnected, mainLoop, hdLoop,
                 stabilityTimers, healthCheck, shutdown, exitCode, episodes,
                 abandoned, staleHandlers>>
  /\ UNCHANGED timingVars

\* the 'block' handler (415-417)
BlockSignal ==
  /\ Running
  /\ \E p \in ProviderIds : Live(p)
  /\ SetData(flushPendingTransactions(DataState))
  /\ UNCHANGED supVars
  /\ UNCHANGED timingVars

(***************************************************************************)
(* SIGTERM (369-381), registered once main's connectWithRetry returned     *)
(***************************************************************************)
Sigterm ==
  /\ Running
  /\ mainLoop.pc = "running"
  /\ shutdown.pc = "idle"
  /\ SetData(flushPendingTransactions(DataState))
  /\ UNCHANGED <<currentProvider, reconnectAttempts, disconnectCount,
                 lastStableConnection, isReconnecting, dbConnected, mainLoop, hdLoop,
                 healthCheck, episodes>>
  /\ IF currentProvider # NULL_PROVIDER
       THEN /\ shutdown' = [pc |-> "destroying", provider |-> currentProvider]
            /\ exitCode' = exitCode
            /\ Settle(DestroyCalled(providers, currentProvider), stabilityTimers)
       ELSE /\ shutdown' = IF dbConnected THEN Idle("counting") ELSE Idle("done")
            /\ exitCode' = IF dbConnected THEN exitCode ELSE "0"
            /\ Settle(providers, stabilityTimers)
  /\ UNCHANGED timingVars

ShutdownDestroyDone ==
  /\ Running
  /\ shutdown.pc = "destroying"
  /\ UNCHANGED <<dataVars, currentProvider, reconnectAttempts, disconnectCount,
                 lastStableConnection, isReconnecting, dbConnected, mainLoop, hdLoop,
                 healthCheck, episodes>>
  /\ shutdown' = IF dbConnected THEN Idle("counting") ELSE Idle("done")
  /\ exitCode' = IF dbConnected THEN exitCode ELSE "0"
  /\ Settle(DestroyFinished(providers, shutdown.provider), stabilityTimers)
  /\ UNCHANGED timingVars

ShutdownCountDone ==
  /\ Running
  /\ shutdown.pc = "counting"
  /\ shutdown' = Idle("done")
  /\ exitCode' = "0"
  /\ UNCHANGED <<dataVars, currentProvider, providers, reconnectAttempts,
                 disconnectCount, lastStableConnection, isReconnecting, dbConnected,
                 mainLoop, hdLoop, stabilityTimers, healthCheck, episodes,
                 abandoned, staleHandlers>>
  /\ UNCHANGED timingVars

(***************************************************************************)
(* The whole program, from main's call of connectWithRetry (342) on: the   *)
(* callback is registered (312) and the database has been probed (297).    *)
(***************************************************************************)
\* an upsert in flight is answered; the requests are independent of one
\* another and are answered in any order
WriteSucceeds ==
  /\ Running
  /\ \E i \in 1..Len(writes) : SetData(insertSucceeded(DataState, i))
  /\ UNCHANGED supVars
  /\ UNCHANGED timingVars

WriteFails ==
  /\ Running
  /\ \E i \in 1..Len(writes) : SetData(insertFailed(DataState, i))
  /\ UNCHANGED supVars
  /\ UNCHANGED timingVars

Init ==
  /\ InitData([DataState0 EXCEPT !.onTransactionReady = TRUE])
  /\ SupervisorState0
  /\ dbConnected \in BOOLEAN

\* the handshake rejects while fewer than MaxFailures attempts in a row failed
MainHandshakeFailsEarly == reconnectAttempts < MaxFailures /\ MainHandshakeFails

HandlerHandshakeFailsEarly == reconnectAttempts < MaxFailures /\ HandlerHandshakeFails

ShutdownNext == Sigterm \/ ShutdownDestroyDone \/ ShutdownCountDone

MonitorNext ==
  \/ HealthCheckStart \/ HealthCheckPasses \/ HealthCheckFails
  \/ StabilityTimerFires \/ ThresholdPasses \/ DashboardTimer

Next ==
  \/ MainAttempt \/ MainHandshakeOk \/ MainHandshakeFailsEarly
  \/ DestroyDone \/ HandlerAttempt \/ HandlerHandshakeOk \/ HandlerHandshakeFailsEarly
  \/ DisconnectSignal \/ ProcessError
  \/ MonitorNext
  \/ ShutdownNext
  \/ DeliverLog \/ BlockSignal
  \/ WriteSucceeds \/ WriteFails

Spec == Init /\ [][Next]_vars

(***************************************************************************)
(* The listener, the grouper's callback and the persistence sink on their  *)
(* own: a subscription that delivers well-formed and malformed logs, with  *)
(* redelivery, flushes at any time, and upserts answered in any order.     *)
(***************************************************************************)
ListenerLogs == SystemLogs \cup MalformedLogs

ListenerInit ==
  /\ InitData([DataState0 EXCEPT !.onTransactionReady = TRUE])
  /\ SupervisorState0
  /\ dbConnected = TRUE

\* the handler startTransferListener registers runs for one delivered log
ListenerDeliver ==
  /\ Len(delivered) + processingErrors < MaxListenerDeliveries
  /\ \E log \in ListenerLogs : SetData(onLog(DataState, log))
  /\ UNCHANGED supVars
  /\ UNCHANGED timingVars

ListenerNext == ListenerDeliver \/ GrouperFlush \/ WriteSucceeds \/ WriteFails

ListenerSpec == ListenerInit /\ [][ListenerNext]_vars

(***************************************************************************)
(* index.ts identifyPattern, the label displayGroupedTransaction prints    *)
(* for a group of two or more transfers. A label is a record: its kind,    *)
(* and for a hub the address and its count, for a complex group the number *)
(* of transfers.                                                           *)
(***************************************************************************)
Pattern(kind, addr, count) == [kind |-> kind, addr |-> addr, count |-> count]

NoPattern == Pattern("none", "", 0)

\* mutant: the same-sender test is made before the swap test
PairPattern_SenderFirst(transfers) ==
  IF transfers[1].from = transfers[2].from
    THEN Pattern("same-sender multi-send", "", 0)
  ELSE IF transfers[1].from = transfers[2].to /\ transfers[1].to = transfers[2].from
    THEN Pattern("bidirectional", "", 0)
  ELSE NoPattern

\* 579-589: transfers.length === 2
PairPattern(transfers) ==
  IF transfers[1].from = transfers[2].to /\ transfers[1].to = transfers[2].from
    THEN Pattern("bidirectional", "", 0)
  ELSE IF transfers[1].from = transfers[2].from
    THEN Pattern("same-sender multi-send", "", 0)
  ELSE NoPattern

\* transfers.flatMap(t => [t.from, t.to])
RECURSIVE AllAddresses(_)
AllAddresses(transfers) ==
  IF transfers = <<>> THEN <<>>
  ELSE <<Head(transfers).from, Head(transfers).to>> \o AllAddresses(Tail(transfers))

\* addressCounts.set(addr, (addressCounts.get(addr) || 0) + 1) for each address
RECURSIVE AddressCounts(_)
AddressCounts(addrs) ==
  IF addrs = <<>> THEN <<>>
  ELSE LET m == AddressCounts(SubSeq(addrs, 1, Len(addrs) - 1))
           addr == addrs[Len(addrs)]
       IN MapSet(m, addr, (IF MapHas(m, addr) THEN m[MapIndex(m, addr)].val ELSE 0) + 1)

\* 598-602: the first entry of the Map, in iteration order, with count >= 3
RouterOf(counts) ==
  LET hits == {i \in 1..Len(counts) : counts[i].val >= 3} IN
    IF hits = {} THEN NoPattern
    ELSE LET i == CHOOSE k \in hits : \A l \in hits : k <= l
         IN Pattern("hub", counts[i].key, counts[i].val)

\* 605-611
isChain(transfers) ==
  \A i \in 2..Len(transfers) : transfers[i].from = transfers[i - 1].to

\* mutant: the chain test is made before the router test
GroupPattern_ChainFirst(transfers) ==
  IF isChain(transfers) THEN Pattern("chain", "", 0)
  ELSE RouterOf(AddressCounts(AllAddresses(transfers)))

\* 591-615: transfers.length >= 3
GroupPattern(transfers) ==
  LET router == RouterOf(AddressCounts(AllAddresses(transfers))) IN
    IF router # NoPattern THEN router
    ELSE IF isChain(transfers) THEN Pattern("chain", "", 0)
    ELSE NoPattern

identifyPattern(transfers) ==
  LET pair == IF Len(transfers) = 2 THEN PairPattern(transfers) ELSE NoPattern
      group == IF pair = NoPattern /\ Len(transfers) >= 3
                 THEN GroupPattern(transfers) ELSE NoPattern
  IN IF pair # NoPattern THEN pair
     ELSE IF group # NoPattern THEN group
     ELSE Pattern("complex", "", Len(transfers))

(***************************************************************************)
(* One transaction of up to MaxPatternLen transfers between any accounts,  *)
(* delivered in log order and flushed once, at any length.                 *)
(***************************************************************************)
PatternAddresses == Holders \cup {"D"}

PatternInit ==
  /\ InitData([DataState0 EXCEPT !.onTransactionReady = TRUE])
  /\ SupervisorState0
  /\ dbConnected = FALSE

PatternAdd ==
  /\ emitted = <<>>
  /\ Len(delivered) < MaxPatternLen
  /\ \E from \in PatternAddresses, to \in PatternAddresses,
        value \in (IF Len(delivered) < 2 THEN Values ELSE {1}) :
       SetData(addTransfer(DataState,
                           decodeTransferLog(Log("T1", Len(delivered), 100, from, to, value),
                                             Now(DataState))))
  /\ UNCHANGED supVars
  /\ UNCHANGED timingVars

PatternNext == PatternAdd \/ GrouperFlush

PatternSpec == PatternInit /\ [][PatternNext]_vars

(***************************************************************************)
(* The reconnection machinery alone, with no limit on how often a          *)
(* handshake rejects. Every await of the program settles: a sleep ends, a  *)
(* handshake resolves or rejects, destroy() and the final count return.    *)
(* Nothing is assumed of the signals that reach the process.               *)
(***************************************************************************)
ReconnectNext ==
  \/ MainAttempt \/ MainHandshakeOk \/ MainHandshakeFails
  \/ DestroyDone \/ HandlerAttempt \/ HandlerHandshakeOk \/ HandlerHandshakeFails
  \/ DisconnectSignal \/ ProcessError
  \/ ShutdownNext

AwaitsSettle ==
  /\ WF_vars(MainAttempt)
  /\ WF_vars(MainHandshakeOk \/ MainHandshakeFails)
  /\ WF_vars(DestroyDone)
  /\ WF_vars(HandlerAttempt)
  /\ WF_vars(HandlerHandshakeOk \/ HandlerHandshakeFails)
  /\ WF_vars(ShutdownDestroyDone)
  /\ WF_vars(ShutdownCountDone)

SpecFair == Init /\ [][ReconnectNext]_vars /\ AwaitsSettle

(***************************************************************************)
(* The reconnection machinery with a subscription that delivers: handshakes*)
(* reject without limit, so the attempt ceiling is reached while events    *)
(* arrive from the providers that have handlers.                           *)
(***************************************************************************)
\* the supervisor and the subscription with no database, no shutdown and no
\* connection error that reaches the process-level handlers
SuperviseInit ==
  /\ InitData([DataState0 EXCEPT !.onTransactionReady = TRUE])
  /\ SupervisorState0
  /\ dbConnected = FALSE

SuperviseNext ==
  \/ MainAttempt \/ MainHandshakeOk \/ MainHandshakeFailsEarly
  \/ DestroyDone \/ HandlerAttempt \/ HandlerHandshakeOk \/ HandlerHandshakeFailsEarly
  \/ DisconnectSignal
  \/ MonitorNext
  \/ DeliverLog \/ BlockSignal

SuperviseSpec == SuperviseInit /\ [][SuperviseNext]_vars

(***************************************************************************)
(* Signals of a connection that was torn down and replaced. One loop       *)
(* only, and every handshake succeeds: a provider that still has handlers  *)
(* after it was dropped is one that destroy() was called on, and a health  *)
(* check in flight after the first disconnect was started before it.       *)
(***************************************************************************)
MayTriggerLate == episodes >= 1 /\ episodes < MaxDisconnects + MaxLateSignals

\* the 'error' or 'close' handler of a destroyed provider runs (420-431)
LateSignal ==
  /\ Running
  /\ MayTriggerLate
  /\ staleHandlers
  /\ UNCHANGED <<currentProvider, reconnectAttempts, lastStableConnection, dbConnected,
                 mainLoop, healthCheck, shutdown, exitCode>>
  /\ handleDisconnect
  /\ UNCHANGED timingVars

\* the health check's race is lost to its 10 s timeout (353-362)
LateHealthCheckFails ==
  /\ Running
  /\ MayTriggerLate
  /\ healthCheck
  /\ healthCheck' = FALSE
  /\ UNCHANGED <<currentProvider, reconnectAttempts, lastStableConnection, dbConnected,
                 mainLoop, shutdown, exitCode>>
  /\ handleDisconnect
  /\ UNCHANGED timingVars

FirstHealthCheckStart == episodes = 0 /\ HealthCheckStart

StaleNext ==
  \/ MainAttempt \/ MainHandshakeOk
  \/ DestroyDone \/ HandlerAttempt \/ HandlerHandshakeOk
  \/ DisconnectSignal
  \/ FirstHealthCheckStart \/ HealthCheckPasses \/ HealthCheckFails
  \/ LateSignal \/ LateHealthCheckFails
  \/ StabilityTimerFires \/ ThresholdPasses
  \/ DeliverLog \/ BlockSignal

StaleSpec == SuperviseInit /\ [][StaleNext]_vars

ExhaustNext == ReconnectNext \/ DeliverLog \/ BlockSignal

ExhaustSpec == Init /\ [][ExhaustNext]_vars

(***************************************************************************)
(* The delays the supervisor sleeps for, in milliseconds. Math.random()    *)
(* is sampled at the ends and the middle of its range [0, 1).              *)
(***************************************************************************)
BASE_DELAY_MS == 10000
MAX_DELAY_MS == 300000

\* Math.min(base * Math.pow(2, n), cap): the product is a double in the code
\* and never wraps, so the doubling is cut off at the cap as soon as it passes it
RECURSIVE CappedBackoff(_, _, _)
CappedBackoff(base, n, cap) ==
  IF n <= 0 THEN Min(base, cap) ELSE Min(2 * CappedBackoff(base, n - 1, cap), cap)

\* Math.random() * 1000 in connectWithRetry, Math.random() * 5000 in handleDisconnect
RetryJitters == {0, 500, 999}
DisconnectJitters == {0, 2500, 4999}

\* connectWithRetry 444-448
exponentialDelay(attempts) == CappedBackoff(BASE_DELAY_MS, attempts - 1, MAX_DELAY_MS)

\* connectWithRetry 444-464: the argument of sleep() after the attempt that
\* raised reconnectAttempts to attempts
retryDelay(attempts, jitter, isRateLimited) ==
  LET delay == exponentialDelay(attempts) + jitter IN
    IF isRateLimited THEN Min(delay * 2, MAX_DELAY_MS) ELSE delay

\* mutant: the backoff term is left out of the unstable delay
disconnectDelay_JitterOnly(count, jitter, wasUnstable) ==
  IF wasUnstable THEN jitter ELSE 5000

\* handleDisconnect 503-518: the argument of sleep(), count being
\* disconnectCount after its increment
disconnectDelay(count, jitter, wasUnstable) ==
  IF wasUnstable
    THEN CappedBackoff(BASE_DELAY_MS, count - 1, MAX_DELAY_MS) + jitter
    ELSE 5000

DelayInit == InitData(DataState0) /\ SupervisorState0 /\ dbConnected = FALSE

\* the catch block of connectWithRetry computes its delay
RetrySleep ==
  /\ \E attempts \in 1..MAX_RECONNECT_ATTEMPTS, jitter \in RetryJitters,
        isRateLimited \in BOOLEAN :
       lastSleep' = [by |-> "connectWithRetry", n |-> attempts, jitter |-> jitter,
                     flag |-> isRateLimited,
                     ms |-> retryDelay(attempts, jitter, isRateLimited)]
  /\ UNCHANGED <<dataVars, supVars>>

\* handleDisconnect computes its delay
DisconnectSleep ==
  /\ \E count \in 1..MaxDisconnectCount, jitter \in DisconnectJitters,
        wasUnstable \in BOOLEAN :
       lastSleep' = [by |-> "handleDisconnect", n |-> count, jitter |-> jitter,
                     flag |-> wasUnstable,
                     ms |-> disconnectDelay(count, jitter, wasUnstable)]
  /\ UNCHANGED <<dataVars, supVars>>

DelayNext == RetrySleep \/ DisconnectSleep

DelaySpec == DelayInit /\ [][DelayNext]_vars

\* C12: the delay connectWithRetry waits after the k-th consecutive failed
\* attempt never exceeds MAX_DELAY_MS and is not larger than the delay after
\* the (k+1)-th, whatever the jitter values, in the plain and in the
\* rate-limited variant.
C12_RetryDelayCapped ==
  lastSleep.by = "connectWithRetry" =>
    /\ lastSleep.ms <= MAX_DELAY_MS
    /\ lastSleep.n < MAX_RECONNECT_ATTEMPTS =>
         \A jitter \in RetryJitters :
           lastSleep.ms <= retryDelay(lastSleep.n + 1, jitter, lastSleep.flag)

RECURSIVE SumDeltas(_)
SumDeltas(m) == IF m = <<>> THEN 0 ELSE Head(m).val + SumDeltas(Tail(m))

\* the ledger as it was right after the i-th logged call
PostOf(i) == IF i = Len(ledgerCalls) THEN balances ELSE ledgerCalls[i + 1].pre

MintOf(c) == IF c.from = ZERO_ADDRESS THEN c.value ELSE 0
BurnOf(c) == IF c.to = ZERO_ADDRESS THEN c.value ELSE 0

RECURSIVE NetMinted(_)
NetMinted(calls) ==
  IF calls = <<>> THEN 0
  ELSE MintOf(Head(calls)) - BurnOf(Head(calls)) + NetMinted(Tail(calls))

\* C4: every updateBalance call changes the sum of all deltas by exactly
\* (value if from is the zero address) - (value if to is the zero address),
\* so a transfer between non-zero accounts (from = to included) conserves the
\* sum, and the sum always equals total minted minus total burned.
C4_SumConserved ==
  /\ \A i \in 1..Len(ledgerCalls) :
       SumDeltas(PostOf(i)) - SumDeltas(ledgerCalls[i].pre)
         = MintOf(ledgerCalls[i]) - BurnOf(ledgerCalls[i])
  /\ SumDeltas(balances) = NetMinted(ledgerCalls)

C4_Witness ==
  /\ \E i \in 1..Len(ledgerCalls) :
       ledgerCalls[i].from = ZERO_ADDRESS /\ ledgerCalls[i].to \in Holders
  /\ \E i \in 1..Len(ledgerCalls) :
       ledgerCalls[i].to = ZERO_ADDRESS /\ ledgerCalls[i].from \in Holders
  /\ \E i \in 1..Len(ledgerCalls) :
       ledgerCalls[i].from \in Holders /\ ledgerCalls[i].from = ledgerCalls[i].to
  /\ SumDeltas(balances) = 1

\* every account other than a keeps its entry and its delta from m1 to m2
SameExcept(m1, m2, a) ==
  /\ MapKeys(m2) \ {a} = MapKeys(m1) \ {a}
  /\ \A k \in MapKeys(m1) \ {a} : BalanceOf(m2, k) = BalanceOf(m1, k)

\* C5: a mint changes only the receiver's delta (+value), a burn changes only
\* the sender's delta (-value), and the zero address is never a key of the
\* ledger, never among the top holders and never counted in totalHolders.
C5_MintBurnFrame ==
  /\ \A i \in 1..Len(ledgerCalls) :
       LET c == ledgerCalls[i] IN
         /\ (c.from = ZERO_ADDRESS /\ c.to # ZERO_ADDRESS) =>
              /\ SameExcept(c.pre, PostOf(i), c.to)
              /\ BalanceOf(PostOf(i), c.to) = BalanceOf(c.pre, c.to) + c.value
         /\ (c.to = ZERO_ADDRESS /\ c.from # ZERO_ADDRESS) =>
              /\ SameExcept(c.pre, PostOf(i), c.from)
              /\ BalanceOf(PostOf(i), c.from) = BalanceOf(c.pre, c.from) - c.value
  /\ ZERO_ADDRESS \notin MapKeys(balances)
  /\ \A i \in 1..Len(balances) : getTopHolders(balances, Len(balances))[i].key # ZERO_ADDRESS
  /\ getStats.totalHolders = Cardinality(MapKeys(balances) \ {ZERO_ADDRESS})

C5_Witness ==
  /\ Len(ledgerCalls) = 3
  /\ ledgerCalls[1].from = ZERO_ADDRESS /\ ledgerCalls[1].to = "A"
  /\ ledgerCalls[2].from = "A" /\ ledgerCalls[2].to = "B"
  /\ ledgerCalls[3].from = "A" /\ ledgerCalls[3].to = ZERO_ADDRESS
  /\ getStats.totalHolders = 2

\* the two ledgers give every account the same delta (an unknown account has 0)
SameDeltas(m1, m2) == \A a \in Addresses : BalanceOf(m1, a) = BalanceOf(m2, a)

\* C6: from any ledger state, updateBalance(A, B, v) followed by
\* updateBalance(B, A, v), A and B not the zero address, leaves every
\* account's delta as it was before the two calls: for the two calls computed
\* from every ledger that can still be applied to, and for every such pair of
\* calls the ledger has made.
C6_RoundTrip ==
  /\ Len(ledgerCalls) < MaxApplies =>
       \A a \in Holders, b \in Holders, v \in Values :
         LET back == updateBalance(updateBalance(balances, a, b, v), b, a, v)
         IN SameDeltas(back, balances)
  /\ \A i \in 2..Len(ledgerCalls) :
       LET c1 == ledgerCalls[i - 1]
           c2 == ledgerCalls[i]
       IN (/\ c1.from \in Holders /\ c1.to \in Holders
           /\ c2.from = c1.to /\ c2.to = c1.from /\ c2.value = c1.value)
            => SameDeltas(PostOf(i), c1.pre)

C6_Witness ==
  /\ Len(ledgerCalls) = 3
  /\ ledgerCalls[1].from = ZERO_ADDRESS /\ ledgerCalls[1].to = "A"
  /\ ledgerCalls[2].from = "A" /\ ledgerCalls[2].to = "B" /\ ledgerCalls[2].value = 2
  /\ ledgerCalls[3].from = "B" /\ ledgerCalls[3].to = "A" /\ ledgerCalls[3].value = 2
  /\ SameDeltas(balances, ledgerCalls[2].pre)
  /\ MapKeys(balances) # MapKeys(ledgerCalls[2].pre)

(***************************************************************************)
(* getTopHolders                                                           *)
(***************************************************************************)
TopNs == (-2)..MaxTopN

TopHoldersRanked(n) ==
  LET r == getTopHolders(balances, n) IN
    /\ \A i \in 1..Len(r) :
         /\ r[i].key \in MapKeys(balances)
         /\ r[i].val = BalanceOf(balances, r[i].key)
    /\ \A i \in 1..Len(r), j \in 1..Len(r) :
         /\ i < j => r[i].val >= r[j].val
         /\ i # j => r[i].key # r[j].key
    /\ \A a \in MapKeys(balances) \ {r[i].key : i \in 1..Len(r)} :
         \A i \in 1..Len(r) : BalanceOf(balances, a) <= r[i].val

Groups == {emitted[i] : i \in 1..Len(emitted)}

StrictlyAscending(ts) ==
  \A i \in 1..Len(ts), j \in 1..Len(ts) : i < j => ts[i].logIndex < ts[j].logIndex

Ascending(ts) ==
  \A i \in 1..Len(ts), j \in 1..Len(ts) : i < j => ts[i].logIndex <= ts[j].logIndex

\* the same log arrived more than once among these transfers
DeliveredTwice(ts) ==
  \E i \in 1..Len(ts), j \in 1..Len(ts) :
    /\ i # j
    /\ ts[i].transactionHash = ts[j].transactionHash
    /\ ts[i].logIndex = ts[j].logIndex

\* C1 as stated: every emitted group has its transfers strictly ascending by
\* logIndex, whatever the arrival order.
C1_Original == \A g \in Groups : StrictlyAscending(g.transfers)

\* C1 amended: every emitted group has its transfers in ascending
\* (non-decreasing) order of logIndex whatever the arrival order, strictly
\* ascending unless the same log was delivered twice into the group.
C1_SortedByLogIndex ==
  \A g \in Groups :
    /\ Ascending(g.transfers)
    /\ StrictlyAscending(g.transfers) \/ DeliveredTwice(g.transfers)

\* arrivals T1#2, T1#0, T1#1 of block 100, then an event of block 101
C1_Witness ==
  /\ Len(delivered) = 4
  /\ [i \in 1..4 |-> delivered[i].logIndex] = <<2, 0, 1, 0>>
  /\ [i \in 1..4 |-> delivered[i].blockNumber] = <<100, 100, 100, 101>>
  /\ Len(emitted) = 1
  /\ emitted[1].transactionHash = "T1"
  /\ [i \in 1..3 |-> emitted[1].transfers[i].logIndex] = <<0, 1, 2>>
  /\ [i \in 1..3 |-> emitted[1].transfers[i].value] = <<3, 3, 5>>

(***************************************************************************)
(* Whole-system properties                                                 *)
(***************************************************************************)
\* no log reached the listener twice
NoRedelivery ==
  \A i \in 1..Len(delivered), j \in 1..Len(delivered) :
    i # j => LogKey(delivered[i]) # LogKey(delivered[j])

DeliveredOf(txHash) == {i \in 1..Len(delivered) : delivered[i].transactionHash = txHash}

\* C2: even when no log is delivered twice, the callback is invoked at most
\* once for any transactionHash, over every interleaving of deliveries, block
\* signals, disconnect flushes and shutdown flushes, and a group whose
\* transaction has nothing left in the buffer holds every delivered event of
\* the transaction.
C2_OncePerTransaction ==
  NoRedelivery =>
    /\ \A i \in 1..Len(emitted), j \in 1..Len(emitted) :
         i # j => emitted[i].transactionHash # emitted[j].transactionHash
    /\ \A i \in 1..Len(emitted) :
         ~MapHas(pendingTransfers, emitted[i].transactionHash) =>
           Len(emitted[i].transfers) = Cardinality(DeliveredOf(emitted[i].transactionHash))

\* C3: every event, identified by (transactionHash, logIndex), is applied to
\* the ledger by at most one updateBalance call (and, once delivered, by one).
C3_AppliedOnce ==
  /\ \A i \in 1..Len(ledgerCalls), j \in 1..Len(ledgerCalls) :
       i # j => ledgerCalls[i].event # ledgerCalls[j].event
  /\ \A i \in 1..Len(delivered) :
       \E j \in 1..Len(ledgerCalls) : ledgerCalls[j].event = LogKey(delivered[i])

\* the providers connectWithRetry created and destroy() was never called on
Undestroyed == {p \in ProviderIds : providers[p].destroyed = "no"}

\* C8: in every reachable state at most one provider created by
\* connectWithRetry has not been destroyed, counting established connections
\* and providers whose handshake is pending or has failed.
C8_OneProvider == Cardinality(Undestroyed) + abandoned <= 1

\* the loop awaits the handshake of a provider nobody destroyed
AttemptInFlight(loop) ==
  /\ loop.pc = "handshake"
  /\ providers[loop.provider].destroyed = "no"

\* C9: the startup connect of main and the connect of handleDisconnect never
\* have a connection attempt in flight at the same time.
C9_OneAttemptInFlight == ~(AttemptInFlight(mainLoop) /\ AttemptInFlight(hdLoop))

\* handleDisconnect passed the guard and has not returned
Accepted == isReconnecting /\ Running

\* the handler's connectWithRetry returned with a connection established
Reconnected ==
  /\ ~isReconnecting
  /\ hdLoop.pc = "idle"
  /\ currentProvider # NULL_PROVIDER

\* C10 as stated: when every await settles, each accepted disconnect leads to
\* an established connection with isReconnecting = false or to process exit
\* with a non-zero code.
C10_Original == Accepted ~> (Reconnected \/ exitCode = "1")

\* C10 amended: when every await settles, each accepted disconnect leads to
\* an established connection with isReconnecting = false or to process exit
\* (code 1 when the attempts are exhausted, code 0 on SIGTERM); isReconnecting
\* is never left true forever while the process keeps running.
C10_ReconnectionEnds ==
  /\ Accepted ~> (Reconnected \/ ~Running)
  /\ ~<>[]Accepted

C10_Witness == episodes = 1 /\ Reconnected /\ Running /\ providers[currentProvider].socket = "open"

\* C11: reconnectAttempts stays within 0..MAX_RECONNECT_ATTEMPTS in every
\* reachable state, and the process exits with code 1 only with the counter
\* at the ceiling and with code 0 only from the SIGTERM handler.
C11_AttemptsWithinCeiling ==
  /\ reconnectAttempts \in 0..MAX_RECONNECT_ATTEMPTS
  /\ exitCode = "1" => reconnectAttempts = MAX_RECONNECT_ATTEMPTS
  /\ exitCode = "0" => shutdown.pc = "done"

\* C14: in every accepted disconnect the flush precedes destroy(), and when
\* destroy() has settled and currentProvider is set to null the pending
\* buffer is empty: every event delivered up to then has been emitted.
C14_FlushedAtRelease ==
  [][hdLoop.pc = "destroying" /\ hdLoop'.pc # "destroying" /\ currentProvider' = NULL_PROVIDER
       => pendingTransfers' = <<>>]_vars

\* C15: when the SIGTERM handler exits with code 0 the pending buffer is
\* empty, every delivered event has been emitted and no
\* insertGroupedTransaction write is in flight.
C15_CleanShutdown ==
  exitCode = "0" =>
    /\ pendingTransfers = <<>>
    /\ \A i \in 1..Len(delivered) :
         \E g \in 1..Len(emitted) :
           \E k \in 1..Len(emitted[g].transfers) : emitted[g].transfers[k] = delivered[i]
    /\ writes = <<>>

(***************************************************************************)
(* Grouper contracts                                                       *)
(***************************************************************************)
\* C16: a flush of an empty buffer passes nothing to the callback and leaves
\* the buffer, currentBlock, totalMultiTransferTxs and maxTransfersInOneTx
\* (and everything else) as they were; of two consecutive flushes the second
\* emits nothing.
C16_FlushIdempotent ==
  LET once == flushPendingTransactions(DataState)
      twice == flushPendingTransactions(once)
  IN /\ pendingTransfers = <<>> => once = DataState
     /\ once.pendingTransfers = <<>>
     /\ twice = once

\* a flush emitted the buffered transactions of block 100, one of them with
\* several transfers, and the buffer is empty for the next flush
C16_Witness ==
  /\ onTransactionReady
  /\ pendingTransfers = <<>>
  /\ Len(emitted) = 2
  /\ currentBlock = 100
  /\ totalMultiTransferTxs = 1
  /\ maxTransfersInOneTx = 2

SameTransfers(a, b) ==
  /\ Len(a) = Len(b)
  /\ \A t \in {a[i] : i \in 1..Len(a)} \cup {b[i] : i \in 1..Len(b)} :
       Cardinality({i \in 1..Len(a) : a[i] = t}) = Cardinality({i \in 1..Len(b) : b[i] = t})

\* C17: addTransfer of an event of a block above currentBlock first passes
\* every buffered transaction to the callback, and leaves the buffer with
\* exactly the new event and currentBlock at its block; addTransfer of an
\* event of currentBlock, or with currentBlock null, emits nothing.
C17_BlockBoundaryFlush ==
  \A log \in ChainLogs :
    LET transfer == decodeTransferLog(log, Now(DataState))
        after == addTransfer(DataState, transfer)
    IN /\ (currentBlock # NULL_BLOCK /\ transfer.blockNumber > currentBlock) =>
            /\ onTransactionReady =>
                 /\ Len(after.emitted) = Len(emitted) + Len(pendingTransfers)
                 /\ SubSeq(after.emitted, 1, Len(emitted)) = emitted
                 /\ \A i \in 1..Len(pendingTransfers) :
                      LET g == after.emitted[Len(emitted) + i] IN
                        /\ g.transactionHash = pendingTransfers[i].key
                        /\ SameTransfers(g.transfers, pendingTransfers[i].val)
            /\ after.pendingTransfers =
                 <<[key |-> transfer.transactionHash, val |-> <<transfer>>]>>
            /\ after.currentBlock = transfer.blockNumber
       /\ (currentBlock = NULL_BLOCK \/ transfer.blockNumber = currentBlock) =>
            /\ after.emitted = emitted
            /\ after.currentBlock = transfer.blockNumber

\* T1 and T2 of block 100 were buffered when T3 of block 101 arrived
C17_Witness ==
  /\ onTransactionReady
  /\ Len(emitted) = 2
  /\ emitted[1].blockNumber = 100 /\ emitted[2].blockNumber = 100
  /\ currentBlock = 101
  /\ Len(pendingTransfers) = 1
  /\ pendingTransfers[1].key = "T3"
  /\ Len(pendingTransfers[1].val) = 1
  /\ Len(delivered) = 3

(***************************************************************************)
(* Persistence and listener contracts                                      *)
(***************************************************************************)
KeysOf(rows) == {RowKey(r) : r \in rows}

UniqueKeys(rows) == \A r1 \in rows, r2 \in rows : RowKey(r1) = RowKey(r2) => r1 = r2

\* C18: the table holds at most one row per (tx_hash, log_index); a write
\* that is answered without error keeps every stored row as it is, adds a
\* row for each of its keys that had none, and counts no error, also when
\* all of its keys are stored already.
C18_FirstWriteWins ==
  /\ UniqueKeys(table)
  /\ \A i \in 1..Len(writes) :
       LET after == insertSucceeded(DataState, i)
           rows == {RowsOf(writes[i])[k] : k \in 1..Len(writes[i].transfers)}
       IN /\ table \subseteq after.table
          /\ UniqueKeys(after.table)
          /\ KeysOf(after.table) = KeysOf(table) \cup KeysOf(rows)
          /\ after.table \subseteq table \cup rows
          /\ after.dbInsertErrors = dbInsertErrors

\* T1#0 was delivered twice and flushed each time; both writes were answered
\* without error and one row is stored
C18_Witness ==
  /\ Len(emitted) = 2
  /\ emitted[1].transactionHash = emitted[2].transactionHash
  /\ Len(emitted[1].transfers) = 1 /\ Len(emitted[2].transfers) = 1
  /\ emitted[1].transfers[1].logIndex = emitted[2].transfers[1].logIndex
  /\ emitted[1].transfers[1].timestamp # emitted[2].transfers[1].timestamp
  /\ writes = <<>>
  /\ dbInsertErrors = 0
  /\ dbInsertCount = 2
  /\ Cardinality(table) = 1

C20_DecodeFailureDropsRecord ==
  /\ [](\A bad \in MalformedLogs :
          LET after == onLog(DataState, bad) IN
            /\ after = [DataState EXCEPT !.processingErrors = @ + 1]
            /\ \A log \in SystemLogs :
                 onLog(after, log)
                   = [onLog(DataState, log) EXCEPT !.processingErrors = @ + 1])
  /\ [][processingErrors' # processingErrors =>
          /\ processingErrors' = processingErrors + 1
          /\ UNCHANGED <<ledgerVars, grouperVars, persistVars, supVars>>]_vars

\* a malformed log was dropped and a well-formed one is in the ledger and in
\* the buffer
C20_Witness ==
  /\ processingErrors = 1
  /\ totalTransfers = 1
  /\ Len(delivered) = 1
  /\ Len(pendingTransfers) = 1
  /\ currentBlock = delivered[1].blockNumber
  /\ Len(balances) = 2

(***************************************************************************)
(* Statistics of the ledger                                                *)
(***************************************************************************)
\* the non-zero addresses the first n logged calls named as sender or receiver
Appeared(n) ==
  ({ledgerCalls[i].from : i \in 1..n} \cup {ledgerCalls[i].to : i \in 1..n})
    \ {ZERO_ADDRESS}

\* C21: getStats().totalTransfers is the number of updateBalance calls made,
\* getStats().totalHolders is the number of distinct non-zero addresses that
\* appeared as sender or receiver, and the number of known accounts never
\* decreases from one call to the next.
C21_StatsCountCallsAndAccounts ==
  /\ getStats.totalTransfers = Len(ledgerCalls)
  /\ getStats.totalHolders = Cardinality(Appeared(Len(ledgerCalls)))
  /\ \A i \in 1..Len(ledgerCalls) :
       /\ Len(PostOf(i)) = Cardinality(Appeared(i))
       /\ Len(ledgerCalls[i].pre) <= Len(PostOf(i))
       /\ MapKeys(ledgerCalls[i].pre) \subseteq MapKeys(PostOf(i))

\* a mint to A, a transfer of it from A to B, and a self-transfer: A is back
\* at delta 0 and is still counted
C21_Witness ==
  /\ Len(ledgerCalls) = 3
  /\ ledgerCalls[1].from = ZERO_ADDRESS
  /\ ledgerCalls[3].from = ledgerCalls[3].to
  /\ BalanceOf(balances, "A") = 0
  /\ MapHas(balances, "A")
  /\ getStats = [totalHolders |-> 2, totalTransfers |-> 3]

(***************************************************************************)
(* More grouper contracts                                                  *)
(***************************************************************************)
\* C22: one flush passes to the callback exactly one group for each
\* transactionHash in the buffer at its start, a transaction with a single
\* transfer as a group of size one, and leaves the buffer empty
\* (pendingTxCount = 0).
C22_OneGroupPerBufferedTransaction ==
  LET after == flushPendingTransactions(DataState)
      new == SubSeq(after.emitted, Len(emitted) + 1, Len(after.emitted))
  IN /\ onTransactionReady =>
          /\ SubSeq(after.emitted, 1, Len(emitted)) = emitted
          /\ \A k \in MapKeys(pendingTransfers) :
               Cardinality({i \in 1..Len(new) : new[i].transactionHash = k}) = 1
          /\ \A i \in 1..Len(new) :
               /\ MapHas(pendingTransfers, new[i].transactionHash)
               /\ Len(new[i].transfers) = Len(PendingOf(pendingTransfers, new[i].transactionHash))
     /\ ~onTransactionReady => after.emitted = emitted
     /\ after.pendingTransfers = <<>>
     /\ getGrouperStats(after).pendingTxCount = 0

\* one flush emitted T1 with its three transfers and T2 with its single one
C22_Witness ==
  /\ onTransactionReady
  /\ Len(emitted) = 2
  /\ Len(emitted[1].transfers) = 3
  /\ Len(emitted[2].transfers) = 1
  /\ emitted[2].transactionHash = "T2"
  /\ currentBlock = 100
  /\ getGrouperStats(DataState).pendingTxCount = 0

\* C23: every event in the pending buffer has blockNumber equal to
\* currentBlock, whatever the order in which events of different blocks are
\* delivered.
C23_BufferHoldsOneBlock ==
  \A i \in 1..Len(pendingTransfers) :
    \A k \in 1..Len(pendingTransfers[i].val) :
      pendingTransfers[i].val[k].blockNumber = currentBlock

\* C24: every group passed to the callback is non-empty, and each of its
\* transfers has the group's transactionHash and the group's blockNumber.
C24_GroupIsUniform ==
  \A g \in Groups :
    /\ Len(g.transfers) > 0
    /\ \A k \in 1..Len(g.transfers) :
         /\ g.transfers[k].transactionHash = g.transactionHash
         /\ g.transfers[k].blockNumber = g.blockNumber

LowestLogIndex(ts) ==
  CHOOSE n \in {ts[k].logIndex : k \in 1..Len(ts)} :
    \A k \in 1..Len(ts) : n <= ts[k].logIndex

\* C25: the blockNumber and the timestamp of an emitted group are those of
\* its transfer with the lowest logIndex (the one of them that arrived first,
\* when the log was delivered more than once), not those of the transfer that
\* arrived first, for every arrival order.
C25_StampedFromLowestLogIndex ==
  \A g \in Groups :
    LET lowest == {k \in 1..Len(g.transfers) :
                     g.transfers[k].logIndex = LowestLogIndex(g.transfers)}
        first == CHOOSE k \in lowest :
                   \A j \in lowest : g.transfers[k].timestamp <= g.transfers[j].timestamp
    IN /\ g.blockNumber = g.transfers[first].blockNumber
       /\ g.timestamp = g.transfers[first].timestamp

\* T1#2 arrived first and T1#0 last: the group carries the time of T1#0
C25_Witness ==
  /\ Len(emitted) = 1
  /\ Len(delivered) = 3
  /\ [i \in 1..3 |-> delivered[i].logIndex] = <<2, 1, 0>>
  /\ emitted[1].timestamp = delivered[3].timestamp
  /\ emitted[1].timestamp # delivered[1].timestamp

(***************************************************************************)
(* Supervisor contracts                                                    *)
(***************************************************************************)
\* C26: disconnectCount is incremented, and the flush and teardown of
\* handleDisconnect run, only in the step that opens a disconnect episode
\* (isReconnecting goes from false to true), so once per episode (the only
\* other step that can raise the counter is the reset to 1 of the stable
\* branch, after a stability timer zeroed it); a trigger
\* (provider error, socket close, failed health check, process-level error)
\* that arrives while isReconnecting is true changes nothing and leaves
\* nothing behind to be replayed.
C26_OncePerEpisode ==
  [][/\ disconnectCount' > disconnectCount =>
          \/ /\ ~isReconnecting /\ isReconnecting'
             /\ disconnectCount' = disconnectCount + 1
          \/ /\ hdLoop.pc = "destroying" /\ hdLoop'.pc = "sleeping"
             /\ lastStableConnection # "recent"
             /\ disconnectCount' = 1
     /\ episodes' # episodes =>
          /\ ~isReconnecting /\ isReconnecting'
          /\ episodes' = episodes + 1
          /\ pendingTransfers' = <<>>
     /\ hdLoop'.pc = "destroying" /\ hdLoop.pc # "destroying" =>
          ~isReconnecting /\ isReconnecting'
     /\ isReconnecting /\ (DisconnectSignal \/ ProcessError \/ HealthCheckFails) =>
          UNCHANGED <<dataVars, currentProvider, providers, reconnectAttempts,
                      disconnectCount, lastStableConnection, isReconnecting,
                      dbConnected, mainLoop, hdLoop, stabilityTimers, shutdown,
                      exitCode, episodes, abandoned, staleHandlers>>]_vars

\* an episode is open, its reconnection awaits a handshake, and the provider
\* it replaced still has the handlers that call handleDisconnect
C26_Witness ==
  /\ isReconnecting
  /\ episodes = 1
  /\ disconnectCount = 1
  /\ hdLoop.pc = "handshake"
  /\ staleHandlers \/ \E p \in ProviderIds : providers[p].listeners > 0
  /\ ENABLED DisconnectSignal

\* C27: a stability timer resets disconnectCount and records
\* lastStableConnection only for the connection it was scheduled for, and
\* only while that connection is the active one: a timer of a connection that
\* has been torn down or replaced, or one that fires with no connection
\* active, changes neither.
C27_TimerMarksItsOwnConnection ==
  [][StabilityTimerFires =>
       \/ /\ Head(stabilityTimers) = currentProvider
          /\ currentProvider # NULL_PROVIDER
          /\ providers[currentProvider].destroyed = "no"
       \/ UNCHANGED <<lastStableConnection, disconnectCount>>]_vars

\* destroy() of the failed connection settled and handleDisconnect chooses
\* its fixed 5 s branch
ShortBranchTaken ==
  /\ hdLoop.pc = "destroying" /\ hdLoop'.pc = "sleeping"
  /\ lastStableConnection # "recent"

\* C28: handleDisconnect takes the fixed 5 s branch only when the connection
\* that just failed had been marked stable, so never while no connection has
\* been marked stable since the process started.
C28_ShortBranchOnlyAfterStable ==
  [][ShortBranchTaken => lastStableConnection # "never"]_vars

\* C29: when the failure is a rate-limit signal the delay waited is twice the
\* delay computed for the attempt, and so never below the delay waited for a
\* failure of the same attempt and jitter that is not rate-limited.
C29_RateLimitDoubles ==
  (lastSleep.by = "connectWithRetry" /\ lastSleep.flag) =>
    /\ lastSleep.ms = 2 * retryDelay(lastSleep.n, lastSleep.jitter, FALSE)
    /\ lastSleep.ms >= retryDelay(lastSleep.n, lastSleep.jitter, FALSE)

\* C30: a handshake that succeeds in connectWithRetry resets
\* reconnectAttempts to 0, schedules exactly one stability check for that
\* connection, and registers the transfer filter, the block handler and the
\* error/close handlers on the provider whose handshake it was, before
\* connectWithRetry returns.
C30_HandshakeSuccessRegisters ==
  [][/\ MainHandshakeOk =>
          /\ reconnectAttempts' = 0
          /\ mainLoop'.pc = "running"
          /\ stabilityTimers' = Append(stabilityTimers, mainLoop.provider)
          /\ mainLoop.provider \in DOMAIN providers'
          /\ providers'[mainLoop.provider].listeners
               = providers[mainLoop.provider].listeners + 1
     /\ HandlerHandshakeOk =>
          /\ reconnectAttempts' = 0
          /\ hdLoop'.pc = "idle"
          /\ stabilityTimers' = Append(stabilityTimers, hdLoop.provider)
          /\ hdLoop.provider \in DOMAIN providers'
          /\ providers'[hdLoop.provider].listeners
               = providers[hdLoop.provider].listeners + 1]_vars

(***************************************************************************)
(* C31: when the reconnection attempt budget is exhausted, at the moment   *)
(* of the fatal exit the pending buffer is empty and every event delivered *)
(* before the exit has been emitted in a grouped transaction.              *)
(***************************************************************************)
C31_FlushedAtFatalExit ==
  exitCode = "1" =>
    /\ pendingTransfers = <<>>
    /\ \A i \in 1..Len(delivered) :
         \E k \in 1..Len(emitted) :
           \E j \in 1..Len(emitted[k].transfers) :
             /\ emitted[k].transactionHash = delivered[i].transactionHash
             /\ emitted[k].transfers[j].logIndex = delivered[i].logIndex

(***************************************************************************)
(* C32: supervisor activity never changes derived state directly. A step   *)
(* of the stability timer, the health check, the dashboard timer,          *)
(* connectWithRetry or handleDisconnect leaves the ledger (balances,       *)
(* totalTransfers) unchanged, and it leaves the grouper unchanged unless   *)
(* it is the flush of an accepted handleDisconnect: then the buffer is     *)
(* emptied into the emitted groups and no event is added.                  *)
(***************************************************************************)
SupervisorStep ==
  \/ MainAttempt \/ MainHandshakeOk \/ MainHandshakeFails
  \/ DestroyDone \/ HandlerAttempt \/ HandlerHandshakeOk \/ HandlerHandshakeFails
  \/ DisconnectSignal \/ ProcessError
  \/ HealthCheckStart \/ HealthCheckPasses \/ HealthCheckFails
  \/ StabilityTimerFires \/ ThresholdPasses \/ DashboardTimer

C32_SupervisorFramesDerivedState ==
  [][SupervisorStep =>
       /\ UNCHANGED <<balances, totalTransfers, ledgerCalls>>
       /\ UNCHANGED <<currentBlock, onTransactionReady, delivered>>
       /\ \/ UNCHANGED <<pendingTransfers, emitted, totalMultiTransferTxs,
                          maxTransfersInOneTx>>
          \/ /\ ~isReconnecting /\ isReconnecting'
             /\ pendingTransfers' = <<>>
             /\ emitted' = emitted \o FlushGroups(pendingTransfers)]_vars

\* a disconnect was accepted with events in the buffer, after a stability
\* timer of the connection had fired
C32_Witness ==
  /\ isReconnecting
  /\ hdLoop.pc = "destroying"
  /\ lastStableConnection = "recent"
  /\ pendingTransfers = <<>>
  /\ delivered # <<>>
  /\ Len(emitted) = 1
  /\ Len(emitted[1].transfers) = Len(delivered)

(***************************************************************************)
(* C33: when two accounts have equal deltas, getTopHolders returns them in *)
(* the order in which they were first inserted into the ledger; that order *)
(* is fixed by the history of updateBalance calls, so it is the same on    *)
(* every call while both remain tied.                                      *)
(***************************************************************************)
\* the calls of updateBalance that name account a with a write
WritesTo(a) ==
  {i \in 1..Len(ledgerCalls) : a \in {ledgerCalls[i].from, ledgerCalls[i].to}}

\* the place of a's first insertion: the sender of a call is written before
\* its receiver
FirstInserted(a) ==
  LET i == CHOOSE k \in WritesTo(a) : \A l \in WritesTo(a) : k <= l
  IN 2 * i + (IF ledgerCalls[i].from = a THEN 0 ELSE 1)

C33_TiesInInsertionOrder ==
  \A n \in TopNs :
    LET r == getTopHolders(balances, n) IN
      \A i \in 1..Len(r), j \in 1..Len(r) :
        (i < j /\ r[i].val = r[j].val) =>
          FirstInserted(r[i].key) < FirstInserted(r[j].key)

\* C was inserted before A, they are tied, and both are returned
C33_Witness ==
  LET r == getTopHolders(balances, MaxTopN) IN
    \E i \in 1..Len(r), j \in 1..Len(r) :
      /\ i < j
      /\ r[i].val = r[j].val
      /\ r[i].key = "C" /\ r[j].key = "A"
      /\ Len(ledgerCalls) = MaxApplies

(***************************************************************************)
(* C34: for every group of three or more transfers identifyPattern returns *)
(* exactly one label: hub if some account occupies three or more of the    *)
(* sender/receiver slots; otherwise chain if every transfer's sender is    *)
(* the preceding transfer's receiver; otherwise complex with the transfer  *)
(* count. A group that is both is labelled hub; A->B, B->C, C->D is a      *)
(* chain and a group with M in all three legs is a hub.                    *)
(***************************************************************************)
Slots(ts, a) ==
  Cardinality({i \in 1..Len(ts) : ts[i].from = a})
    + Cardinality({i \in 1..Len(ts) : ts[i].to = a})

HubCondition(ts) == \E a \in PatternAddresses : Slots(ts, a) >= 3

ChainCondition(ts) == \A i \in 1..(Len(ts) - 1) : ts[i + 1].from = ts[i].to

Route(ts) == [i \in 1..Len(ts) |-> <<ts[i].from, ts[i].to>>]

C35_PairLabels ==
  \A k \in 1..Len(emitted) :
    LET ts == emitted[k].transfers
        label == identifyPattern(ts)
    IN Len(ts) = 2 =>
         /\ label.kind =
              (IF ts[1].from = ts[2].to /\ ts[1].to = ts[2].from THEN "bidirectional"
               ELSE IF ts[1].from = ts[2].from THEN "same-sender multi-send"
               ELSE "complex")
         /\ label.kind = "complex" => label.count = 2

\* a group of two transfers of different amounts was emitted in which both
\* tests hold: a self-transfer twice
C35_Witness ==
  /\ Len(emitted) = 1
  /\ Len(emitted[1].transfers) = 2
  /\ Route(emitted[1].transfers) = << <<"A", "A">>, <<"A", "A">> >>
  /\ emitted[1].transfers[1].value # emitted[1].transfers[2].value

(***************************************************************************)
(* C36: a disconnect signal that originates from a connection which has    *)
(* already been torn down and replaced (a late error or close event of the *)
(* old provider, or a health check started on the old provider that times  *)
(* out after the reconnection finished) never causes the current healthy   *)
(* connection to be destroyed nor disconnectCount to be incremented.       *)
(***************************************************************************)
HealthyConnection ==
  /\ ~isReconnecting
  /\ currentProvider # NULL_PROVIDER
  /\ providers[currentProvider].socket = "open"
  /\ providers[currentProvider].destroyed = "no"

C36_LateSignalsAreIgnored ==
  [][(HealthyConnection /\ (LateSignal \/ LateHealthCheckFails)) =>
       /\ disconnectCount' = disconnectCount
       /\ currentProvider \in DOMAIN providers'
       /\ providers'[currentProvider].destroyed = "no"]_vars

(***************************************************************************)
(* C37: with a callback registered, the grouper neither loses nor          *)
(* duplicates events: in every reachable state the multiset of events      *)
(* passed to addTransfer equals the multiset of events in the pending      *)
(* buffer plus the multiset of events in all groups emitted so far (a      *)
(* re-delivered event counts as a new event).                              *)
(***************************************************************************)
\* how many events of seqs, a sequence of sequences of events, satisfy P
CountIn(seqs, P(_)) ==
  Cardinality({ij \in (1..Len(seqs)) \X (1..Len(delivered)) :
                 /\ ij[2] <= Len(seqs[ij[1]])
                 /\ P(seqs[ij[1]][ij[2]])})

BufferedEvents == [i \in 1..Len(pendingTransfers) |-> pendingTransfers[i].val]

EmittedEvents == [i \in 1..Len(emitted) |-> emitted[i].transfers]

C37_EventsConserved ==
  /\ \A t \in {delivered[i] : i \in 1..Len(delivered)} :
       LET SameEvent(e) == e = t IN
         CountIn(<<delivered>>, SameEvent) = CountIn(BufferedEvents, SameEvent) + CountIn(EmittedEvents, SameEvent)
  /\ \A k \in {LogKey(log) : log \in ReorgLogs} :
       LET SameKey(e) == LogKey(e) = k IN
         CountIn(<<delivered>>, SameKey) = CountIn(BufferedEvents, SameKey) + CountIn(EmittedEvents, SameKey)
  /\ LET AnyEvent(e) == TRUE IN
       Len(delivered) = CountIn(BufferedEvents, AnyEvent) + CountIn(EmittedEvents, AnyEvent)

\* an event was delivered twice, once before and once after a flush, and
\* events of two transactions are buffered
C37_Witness ==
  /\ \E i \in 1..Len(delivered), j \in 1..Len(delivered) :
       /\ i < j
       /\ LogKey(delivered[i]) = LogKey(delivered[j])
       /\ \E g \in 1..Len(emitted) : delivered[i] = emitted[g].transfers[1]
       /\ \E b \in 1..Len(pendingTransfers) : delivered[j] \in
            {pendingTransfers[b].val[n] : n \in 1..Len(pendingTransfers[b].val)}
  /\ Len(pendingTransfers) = 2
  /\ Len(delivered) = MaxDeliveries

(***************************************************************************)
(* C38: for each delivered event the ledger is updated before the event is *)
(* buffered, so whenever the grouped-transaction callback has been invoked *)
(* every transfer of the emitted group has already been applied to the     *)
(* ledger, and totalTransfers is at least the number of transfers emitted  *)
(* so far plus the number still buffered.                                  *)
(***************************************************************************)
AppliedCount(k) == Cardinality({i \in 1..Len(ledgerCalls) : ledgerCalls[i].event = k})

C38_LedgerAheadOfGrouper ==
  /\ \A g \in 1..Len(emitted) :
       \A n \in 1..Len(emitted[g].transfers) :
         LET t == emitted[g].transfers[n] IN
           \E i \in 1..Len(ledgerCalls) :
             /\ ledgerCalls[i].event = LogKey(t)
             /\ ledgerCalls[i].from = t.from
             /\ ledgerCalls[i].to = t.to
             /\ ledgerCalls[i].value = t.value
  /\ \A k \in {LogKey(log) : log \in ListenerLogs} :
       LET SameKey(e) == LogKey(e) = k IN
         AppliedCount(k) >= CountIn(EmittedEvents, SameKey) + CountIn(BufferedEvents, SameKey)
  /\ LET AnyEvent(e) == TRUE IN
       totalTransfers >= CountIn(EmittedEvents, AnyEvent) + CountIn(BufferedEvents, AnyEvent)

\* a group was emitted by the flush inside addTransfer (the event of block
\* 101 is buffered) and its transfers are in the ledger
C38_Witness ==
  /\ Len(emitted) = 1
  /\ Len(emitted[1].transfers) = 2
  /\ emitted[1].blockNumber = 100
  /\ Len(pendingTransfers) = 1
  /\ pendingTransfers[1].key = "T3"
  /\ totalTransfers = 3

(***************************************************************************)
(* C39: after the first successful connection, currentProvider is null     *)
(* only while isReconnecting is true: in every reachable state with        *)
(* isReconnecting = false and the process still running (and not shutting  *)
(* down), currentProvider refers to a provider whose handshake succeeded   *)
(* and which has not been destroyed.                                       *)
(***************************************************************************)
\* a connectWithRetry has returned
ConnectedOnce == mainLoop.pc = "running" \/ (episodes >= 1 /\ ~isReconnecting)

C39_ProviderPresentUnlessReconnecting ==
  (Running /\ shutdown.pc = "idle" /\ ConnectedOnce /\ ~isReconnecting) =>
    /\ currentProvider # NULL_PROVIDER
    /\ providers[currentProvider].socket = "open"
    /\ providers[currentProvider].destroyed = "no"

(***************************************************************************)
(* C40: the grouper's currentBlock never decreases: after any sequence of  *)
(* addTransfer calls with arbitrary block numbers, currentBlock equals the *)
(* maximum blockNumber seen so far.                                        *)
(***************************************************************************)
C40_CurrentBlockIsMaximum ==
  delivered # <<>> =>
    /\ \A i \in 1..Len(delivered) : delivered[i].blockNumber <= currentBlock
    /\ \E i \in 1..Len(delivered) : delivered[i].blockNumber = currentBlock
====
